---- MODULE Spec2Model ----
(***************************************************************************)
(* The chained hash table of statsrelay (hashmap.c) as a state machine.    *)
(* The bucket array, the chain nodes on the heap and the three counters of *)
(* struct hashmap are the state; hashmap_put, hashmap_get, hashmap_delete, *)
(* hashmap_clear and hashmap_iter are one action each, on the map that     *)
(* hashmap_init made.  Every malloc and calloc succeeds.                   *)
(***************************************************************************)
EXTENDS Integers, Sequences, FiniteSets, TLC

\* ------------------------------------------------------------------ bounds
\* Memory bound: a put is only taken when the table then holds at most
\* this many entries; the heap has this many chain-node addresses.
MaxEntries == 3
\* In the stepwise put, the doublings one call is followed through.
MaxDoublings == 3
\* The digits behind the point that a double of the parser keeps.
MaxFrac == 2

\* ------------------------------------------------------------------ constants
NULL == 0
DEFAULT_CAPACITY == 128
HASHMAP_ITER_CONTINUE == 0
HASHMAP_ITER_STOP == 1
HASHMAP_ITER_DELETE == 2

\* The caller's keys: NUL-terminated strings, named 1..3.  KeyBytes[k] are
\* the bytes before the terminator ("a", "b", "ab").
KeyBytes == << <<1>>, <<2>>, <<1, 2>> >>
Keys == DOMAIN KeyBytes
\* The caller's value and metadata pointers (NULL is 0).
Values == {1, 2}
Metas == {1, 2}
\* The put calls of a run as <<key, value, metadata>>: every key with
\* every value; the second metadata pointer is only ever given with "ab".
PutArgs == {a \in Keys \X Values \X Metas : a[3] = 1 \/ a[1] = 3}
NodeIds == 1..MaxEntries
\* The hash functions of a run, as <<hash of "a", of "b", of "ab">>: all
\* three keys in one bucket at every size, "b" leaving it at size 8, or
\* "b" apart at size 2 and every key in its own bucket from size 4 on.
HashFunctions == {<<0, 0, 0>>, <<0, 4, 0>>, <<0, 1, 2>>}
\* Arguments given to hashmap_init.
InitialSizes == {1, 2, 3}
IterCodes == {HASHMAP_ITER_CONTINUE, HASHMAP_ITER_STOP, HASHMAP_ITER_DELETE}

VARIABLES
    map,          \* struct hashmap: count, table_size, max_size, table
    heap,         \* the allocated chain nodes: node address -> hashmap_entry
    murmur3_32,   \* the hash function: key -> hash value (fixed in a run)
    initial_size, \* the argument hashmap_init was called with
    call,         \* the hashmap_put in progress (stepwise put only)
    last_put,     \* history: key -> value of its last put, NULL once removed
    key_bufs,     \* accounting: key buffers malloc'ed and not yet freed
    parse         \* validate_statsd: its buffer, len, *result and return value

vars == <<map, heap, murmur3_32, initial_size, call, last_put, key_bufs, parse>>

\* ------------------------------------------------------------------ memory
\* A calloc'ed hashmap_entry.
EmptyEntry ==
    [key_len |-> 0, key |-> NULL, value |-> NULL, metadata |-> NULL, next |-> NULL]

\* hashmap_entry* values: NULL, a chain node n > 0, or table + i as -(i + 1).
Slot(i) == -(i + 1)

\* *p in memory M = [table, heap].
Load(M, p) == IF p < 0 THEN M.table[-p] ELSE M.heap[p]

\* *p = e.
Store(M, p, e) ==
    IF p < 0 THEN [M EXCEPT !.table[-p] = e] ELSE [M EXCEPT !.heap[p] = e]

\* calloc(1, sizeof(hashmap_entry)): the lowest free node address.
NewNode(M) == CHOOSE n \in NodeIds \ DOMAIN M.heap :
                  \A o \in NodeIds \ DOMAIN M.heap : n <= o

Calloc(M) ==
    [M EXCEPT !.heap = [x \in DOMAIN M.heap \cup {NewNode(M)} |->
                            IF x = NewNode(M) THEN EmptyEntry ELSE M.heap[x]]]

\* free(n) of a chain node.
Free(M, n) == [M EXCEPT !.heap = [x \in DOMAIN M.heap \ {n} |-> M.heap[x]]]

\* calloc(n, sizeof(hashmap_entry)).
CallocTable(n) == [i \in 1..n |-> EmptyEntry]

\* ------------------------------------------------------------------ strings
strlen(key) == Len(KeyBytes[key])

\* Byte i (from 1) of the buffer holding key: its bytes, then the NUL.
ByteAt(key, i) == IF i <= strlen(key) THEN KeyBytes[key][i] ELSE 0

\* memcmp(a, b, n) == 0.  b is always a key of length n here; where a is
\* shorter the buffers differ at a's terminator, inside both buffers.
memcmp_eq(a, b, n) == \A i \in 1..n : ByteAt(a, i) = ByteAt(b, i)

\* ------------------------------------------------------------------ hashmap_init
\* (n >> idx) & 0x1 of a 32-bit int: bit 31 is the sign.
BitOf(n, idx) == IF idx = 31 THEN (IF n < 0 THEN 1 ELSE 0) ELSE (n \div (2 ^ idx)) % 2

RECURSIVE MostSigBit(_, _, _)
MostSigBit(n, idx, acc) ==
    IF idx >= 32 THEN acc
    ELSE MostSigBit(n, idx + 1, IF BitOf(n, idx) = 1 THEN idx ELSE acc)

RoundUp(n) ==
    IF n <= 0 THEN DEFAULT_CAPACITY
    ELSE LET msb == MostSigBit(n, 0, 0)
         IN IF 2 ^ msb # n THEN 2 ^ (msb + 1) ELSE 2 ^ msb

\* (int)(MAX_CAPACITY * n) with MAX_CAPACITY 0.75.
MaxSize(n) == (3 * n) \div 4

hashmap_init(n) ==
    [count |-> 0, table_size |-> RoundUp(n), max_size |-> MaxSize(RoundUp(n)),
     table |-> CallocTable(RoundUp(n))]

\* ------------------------------------------------------------------ lookup
hashmap_size(m) == m.count

hashmap_index(table_size, key) == Slot(murmur3_32[key] % table_size)

hashmap_keys_equal(entry, key, key_len) ==
    entry.key_len = key_len /\ memcmp_eq(entry.key, key, key_len)

Mem(m, h) == [table |-> m.table, heap |-> h]

RECURSIVE GetScan(_, _, _, _)
GetScan(M, entry, key, key_len) ==
    IF entry # NULL /\ Load(M, entry).key # NULL
    THEN IF hashmap_keys_equal(Load(M, entry), key, key_len)
         THEN [ret |-> 0, value |-> Load(M, entry).value]
         ELSE GetScan(M, Load(M, entry).next, key, key_len)
    ELSE [ret |-> -1, value |-> NULL]

\* hashmap_get: ret and, when found, *value (NULL stands for "not written").
hashmap_get(m, h, key) ==
    GetScan(Mem(m, h), hashmap_index(m.table_size, key), key, strlen(key))

\* ------------------------------------------------------------------ insert
RECURSIVE InsertScan(_, _, _, _, _, _)
InsertScan(M, entry, last_entry, key, key_len, should_cmp) ==
    IF entry # NULL /\ Load(M, entry).key # NULL
    THEN IF should_cmp /\ hashmap_keys_equal(Load(M, entry), key, key_len)
         THEN [found |-> TRUE, entry |-> entry, last_entry |-> last_entry]
         ELSE InsertScan(M, Load(M, entry).next, entry, key, key_len, should_cmp)
    ELSE [found |-> FALSE, entry |-> entry, last_entry |-> last_entry]

\* hashmap_insert_table on the table of M with table_size slots.
hashmap_insert_table(M, table_size, key, key_len, value, metadata, should_cmp) ==
    LET s == InsertScan(M, hashmap_index(table_size, key), NULL, key, key_len,
                        should_cmp)
        new == [key_len |-> key_len, key |-> key, value |-> value,
                metadata |-> metadata, next |-> NULL]
    IN  IF s.found
        THEN [ret |-> 0,
              mem |-> Store(M, s.entry, [Load(M, s.entry) EXCEPT !.value = value])]
        ELSE IF s.entry = NULL /\ s.last_entry = NULL
        THEN [ret |-> -1, mem |-> M]
        ELSE IF s.last_entry = NULL
        THEN [ret |-> 1, mem |-> Store(M, s.entry, new)]
        ELSE [ret |-> 1,
              mem |-> Store(Store(Calloc(M), NewNode(M), new), s.last_entry,
                            [Load(M, s.last_entry) EXCEPT !.next = NewNode(M)])]

\* ------------------------------------------------------------------ resize
\* The while loop of hashmap_double_size over one old chain.  N holds the
\* new table and the heap; the old head slots are read from old_table.
RECURSIVE DoubleChain(_, _, _, _, _)
DoubleChain(old_table, N, new_size, entry, in_table) ==
    LET old == IF entry < 0 THEN old_table[-entry] ELSE N.heap[entry]
    IN  IF entry # NULL /\ old.key # NULL
        THEN LET ins == hashmap_insert_table(N, new_size, old.key, strlen(old.key),
                                             old.value, old.metadata, FALSE).mem
             IN DoubleChain(old_table, IF in_table THEN ins ELSE Free(ins, entry),
                            new_size, old.next, FALSE)
        ELSE N

RECURSIVE DoubleTable(_, _, _, _)
DoubleTable(m, N, new_size, i) ==
    IF i < m.table_size
    THEN DoubleTable(m, DoubleChain(m.table, N, new_size, Slot(i), TRUE),
                     new_size, i + 1)
    ELSE N

\* hashmap_double_size: the map and heap after it.
hashmap_double_size(m, h) ==
    LET new_size == m.table_size * 2
        new_max_size == m.max_size * 2
        N == DoubleTable(m, [table |-> CallocTable(new_size), heap |-> h],
                         new_size, 0)
    IN  [map |-> [count |-> m.count, table_size |-> new_size,
                  max_size |-> new_max_size, table |-> N.table],
         heap |-> N.heap]

\* ------------------------------------------------------------------ put
\* The insert of hashmap_put once no doubling is needed (lines 289-294).
PutInsert(m, h, key, value, metadata) ==
    LET r == hashmap_insert_table(Mem(m, h), m.table_size, key, strlen(key),
                                  value, metadata, TRUE)
    IN  [ret |-> r.ret,
         map |-> [m EXCEPT !.table = r.mem.table,
                           !.count = IF r.ret > 0 THEN m.count + 1 ELSE m.count],
         heap |-> r.mem.heap]

\* hashmap_put returns only if its retry stops doubling; with max_size 0
\* the test count + 1 > max_size stays true after every doubling.
PutReturns(m) == m.count + 1 <= m.max_size \/ m.max_size > 0

RECURSIVE hashmap_put(_, _, _, _, _)
hashmap_put(m, h, key, value, metadata) ==
    IF m.count + 1 > m.max_size
    THEN LET d == hashmap_double_size(m, h)
         IN hashmap_put(d.map, d.heap, key, value, metadata)
    ELSE PutInsert(m, h, key, value, metadata)

\* ------------------------------------------------------------------ delete
RECURSIVE DeleteScan(_, _, _, _, _)
DeleteScan(M, entry, last_entry, key, key_len) ==
    IF entry # NULL /\ Load(M, entry).key # NULL
    THEN IF hashmap_keys_equal(Load(M, entry), key, key_len)
         THEN [found |-> TRUE, entry |-> entry, last_entry |-> last_entry]
         ELSE DeleteScan(M, Load(M, entry).next, entry, key, key_len)
    ELSE [found |-> FALSE, entry |-> entry, last_entry |-> last_entry]

\* The removal of a found entry (lines 313-345 of hashmap_delete).
DeleteUnlink(M, entry, last_entry) ==
    LET e == Load(M, entry)
    IN  IF last_entry = NULL
        THEN IF e.next # NULL
             THEN LET n == Load(M, e.next)
                  IN Free(Store(M, entry,
                                [key_len |-> n.key_len, key |-> n.key,
                                 value |-> n.value, metadata |-> n.metadata,
                                 next |-> n.next]),
                          e.next)
             ELSE Store(M, entry, EmptyEntry)
        ELSE Free(Store(M, last_entry,
                        [Load(M, last_entry) EXCEPT !.next = e.next]),
                  entry)

hashmap_delete(m, h, key) ==
    LET s == DeleteScan(Mem(m, h), hashmap_index(m.table_size, key), NULL, key,
                        strlen(key))
        M == DeleteUnlink(Mem(m, h), s.entry, s.last_entry)
    IN  IF s.found
        THEN [ret |-> 0,
              map |-> [m EXCEPT !.count = m.count - 1, !.table = M.table],
              heap |-> M.heap]
        ELSE [ret |-> -1, map |-> m, heap |-> h]

\* ------------------------------------------------------------------ clear
\* ClearHead without line 380: the key stays in the slot.
ClearHead_kept(e) == e

\* The head slot after hashmap_clear has been over it (line 380).
ClearHead(e) == [e EXCEPT !.key = NULL]

\* The while loop of hashmap_clear over one chain.
RECURSIVE ClearChain(_, _, _)
ClearChain(M, entry, in_table) ==
    IF entry # NULL /\ Load(M, entry).key # NULL
    THEN ClearChain(IF in_table
                    THEN Store(M, entry, ClearHead(Load(M, entry)))
                    ELSE Free(M, entry),
                    Load(M, entry).next, FALSE)
    ELSE M

RECURSIVE ClearTable(_, _, _)
ClearTable(M, table_size, i) ==
    IF i < table_size
    THEN ClearTable(ClearChain(M, Slot(i), TRUE), table_size, i + 1)
    ELSE M

hashmap_clear(m, h) ==
    LET M == ClearTable(Mem(m, h), m.table_size, 0)
    IN  [ret |-> 0, map |-> [m EXCEPT !.count = 0, !.table = M.table],
         heap |-> M.heap]

\* ------------------------------------------------------------------ iterate
\* One visit of the callback: the entry it was handed and what it returned.
Visit(e, cb_ret) ==
    [key |-> e.key, value |-> e.value, metadata |-> e.metadata, cb_ret |-> cb_ret]

\* IterDeleteHead that never moves the next node up: the slot is zeroed
\* whether or not a chain hangs from it.
IterDeleteHead_nozip(M, entry) ==
    Store(M, entry, [Load(M, entry) EXCEPT !.key = NULL, !.value = NULL,
                                          !.next = NULL, !.metadata = NULL])

\* Deleting the entry of a head slot (lines 424-445): the next node is
\* copied into the slot and freed, or the slot is zeroed.
IterDeleteHead(M, entry) ==
    LET e == Load(M, entry)
    IN  IF e.next # NULL
        THEN LET n == Load(M, e.next)
             IN Free(Store(M, entry, [e EXCEPT !.key = n.key, !.value = n.value,
                                              !.next = n.next,
                                              !.metadata = n.metadata]),
                     e.next)
        ELSE Store(M, entry, [e EXCEPT !.key = NULL, !.value = NULL,
                                       !.next = NULL, !.metadata = NULL])

\* Deleting a chain node (lines 446-450): it is spliced out and freed.
IterDeleteNode(M, entry, last_entry) ==
    Free(Store(M, last_entry,
               [Load(M, last_entry) EXCEPT !.next = Load(M, entry).next]),
         entry)

\* IterNextEntry that advances after a head deletion too, past the entry
\* just moved into the slot.
IterNextEntry_skip(M, entry, last_entry) ==
    IF last_entry = NULL THEN Load(M, entry).next ELSE Load(M, last_entry).next

\* The entry examined after a deletion, in the memory M after it: the
\* head slot again (lines 434-436), or last_entry->next (line 451).
IterNextEntry(M, entry, last_entry) ==
    IF last_entry = NULL THEN entry ELSE Load(M, last_entry).next

\* IterCount without the decrement.
IterCount_kept(count) == count

\* map->count after a deletion (line 422).
IterCount(count) == count - 1

\* IterShouldBreak that never records a stop.
IterShouldBreak_never(cb_ret) == HASHMAP_ITER_CONTINUE

\* should_break after a visit that deleted nothing (line 457).
IterShouldBreak(cb_ret) == cb_ret

\* The inner while loop of hashmap_iter.  R carries the memory, the count,
\* should_break and the visits made so far; cb[j] is what the callback
\* returns on its j-th call.
RECURSIVE IterChain(_, _, _, _)
IterChain(R, entry, last_entry, cb) ==
    IF entry # NULL /\ Load(R.mem, entry).key # NULL /\ R.should_break = 0
    THEN LET e == Load(R.mem, entry)
             cb_ret == cb[Len(R.visited) + 1]
             V == [R EXCEPT !.visited = Append(R.visited, Visit(e, cb_ret))]
         IN  IF cb_ret = HASHMAP_ITER_DELETE
             THEN LET D == IF last_entry = NULL
                           THEN IterDeleteHead(R.mem, entry)
                           ELSE IterDeleteNode(R.mem, entry, last_entry)
                  IN IterChain([V EXCEPT !.count = IterCount(R.count), !.mem = D],
                               IterNextEntry(D, entry, last_entry), last_entry, cb)
             ELSE IterChain([V EXCEPT !.should_break = IterShouldBreak(cb_ret)],
                            e.next, entry, cb)
    ELSE R

RECURSIVE IterTable(_, _, _, _)
IterTable(R, table_size, i, cb) ==
    IF i < table_size /\ R.should_break # 1
    THEN IterTable(IterChain(R, Slot(i), NULL, cb), table_size, i + 1, cb)
    ELSE R

hashmap_iter(m, h, cb) ==
    LET R == IterTable([mem |-> Mem(m, h), count |-> m.count, should_break |-> 0,
                        visited |-> <<>>], m.table_size, 0, cb)
    IN  [ret |-> R.should_break,
         map |-> [m EXCEPT !.count = R.count, !.table = R.mem.table],
         heap |-> R.mem.heap, visited |-> R.visited]

\* ------------------------------------------------------------------ walk
\* The entries a walk of one chain finds: <<key, value, metadata>> each.
RECURSIVE ChainEntries(_, _)
ChainEntries(M, entry) ==
    IF entry # NULL /\ Load(M, entry).key # NULL
    THEN <<[key |-> Load(M, entry).key, value |-> Load(M, entry).value,
            metadata |-> Load(M, entry).metadata]>>
         \o ChainEntries(M, Load(M, entry).next)
    ELSE <<>>

RECURSIVE TableEntries(_, _, _)
TableEntries(M, table_size, i) ==
    IF i < table_size
    THEN ChainEntries(M, Slot(i)) \o TableEntries(M, table_size, i + 1)
    ELSE <<>>

\* Every live entry, in bucket order then chain order.
LiveEntries(m, h) == TableEntries(Mem(m, h), m.table_size, 0)

\* ------------------------------------------------------------------ actions
NoPut == [k \in Keys |-> NULL]

Idle == [pc |-> "idle", key |-> NULL, value |-> NULL, metadata |-> NULL,
         doublings |-> 0]

\* No validate_statsd call: the table's runs make none.
NoParse == [pc |-> "none", line |-> <<>>, len |-> NULL, result |-> <<>>, ret |-> NULL]

Init ==
    /\ initial_size \in InitialSizes
    /\ murmur3_32 \in HashFunctions
    /\ map = hashmap_init(initial_size)
    /\ heap = <<>>
    /\ call = Idle
    /\ last_put = NoPut
    /\ key_bufs = 0
    /\ parse = NoParse

\* Each call below is the whole handler; last_put is left to the
\* specification (Spec keeps it, SpecHistory records it).
PutCall(key, value, metadata) ==
    /\ call.pc = "idle"
    /\ PutReturns(map)
    /\ LET r == hashmap_put(map, heap, key, value, metadata)
       IN  /\ r.map.count <= MaxEntries
           /\ map' = r.map
           /\ heap' = r.heap
    /\ UNCHANGED <<murmur3_32, initial_size, call, parse>>

\* hashmap_get reads the table and writes only the caller's *value.
Get(key) ==
    /\ call.pc = "idle"
    /\ hashmap_get(map, heap, key).ret \in {0, -1}
    /\ UNCHANGED vars

DeleteCall(key) ==
    /\ call.pc = "idle"
    /\ LET r == hashmap_delete(map, heap, key)
       IN  /\ map' = r.map
           /\ heap' = r.heap
    /\ UNCHANGED <<murmur3_32, initial_size, call, parse>>

ClearCall ==
    /\ call.pc = "idle"
    /\ LET r == hashmap_clear(map, heap)
       IN  /\ map' = r.map
           /\ heap' = r.heap
    /\ UNCHANGED <<murmur3_32, initial_size, call, parse>>

\* The callbacks: what each call returns, for as many calls as the table
\* has entries.  No call follows a STOP (the loops end on should_break),
\* so what a callback would return after it is fixed to CONTINUE.
Callbacks(m, h) ==
    {cb \in [1..Len(LiveEntries(m, h)) -> IterCodes] :
        \A j \in DOMAIN cb :
            cb[j] = HASHMAP_ITER_STOP =>
                \A i \in DOMAIN cb : i > j => cb[i] = HASHMAP_ITER_CONTINUE}

IterCall(cb) ==
    /\ call.pc = "idle"
    /\ LET r == hashmap_iter(map, heap, cb)
       IN  /\ map' = r.map
           /\ heap' = r.heap
    /\ UNCHANGED <<murmur3_32, initial_size, call, parse>>

Put(key, value, metadata) ==
    PutCall(key, value, metadata) /\ UNCHANGED <<last_put, key_bufs>>
Delete(key) == DeleteCall(key) /\ UNCHANGED <<last_put, key_bufs>>
Clear == ClearCall /\ UNCHANGED <<last_put, key_bufs>>
Iter(cb) == IterCall(cb) /\ UNCHANGED <<last_put, key_bufs>>

Next ==
    \/ \E a \in PutArgs : Put(a[1], a[2], a[3])
    \/ \E k \in Keys : Get(k)
    \/ \E k \in Keys : Delete(k)
    \/ Clear
    \/ \E cb \in Callbacks(map, heap) : Iter(cb)

Spec == Init /\ [][Next]_vars

\* ------------------------------------------------------------------ history
\* The same calls, with last_put recording for each key the value of its
\* last put that returned, until the key is deleted, cleared or deleted
\* by the callback of an iterate.
DeletedKeys(visited) ==
    {visited[j].key : j \in {x \in DOMAIN visited :
                                 visited[x].cb_ret = HASHMAP_ITER_DELETE}}

HPut(key, value, metadata) ==
    /\ PutCall(key, value, metadata)
    /\ last_put' = IF hashmap_put(map, heap, key, value, metadata).ret >= 0
                   THEN [last_put EXCEPT ![key] = value] ELSE last_put
    /\ UNCHANGED key_bufs

HDelete(key) ==
    /\ DeleteCall(key)
    /\ last_put' = [last_put EXCEPT ![key] = NULL]
    /\ UNCHANGED key_bufs

HClear == ClearCall /\ last_put' = NoPut /\ UNCHANGED key_bufs

HIter(cb) ==
    /\ IterCall(cb)
    /\ last_put' = [k \in Keys |->
                      IF k \in DeletedKeys(hashmap_iter(map, heap, cb).visited)
                      THEN NULL ELSE last_put[k]]
    /\ UNCHANGED key_bufs

NextHistory ==
    \/ \E a \in PutArgs : HPut(a[1], a[2], a[3])
    \/ \E k \in Keys : Get(k)
    \/ \E k \in Keys : HDelete(k)
    \/ HClear
    \/ \E cb \in Callbacks(map, heap) : HIter(cb)

SpecHistory == Init /\ [][NextHistory]_vars

\* ------------------------------------------------------------------ stepwise put
\* hashmap_put one recursion level at a time: the call is entered, every
\* level whose test count + 1 > max_size holds doubles and retries, and
\* the level whose test fails inserts and returns.
PutEnter(key, value, metadata) ==
    /\ call.pc = "idle"
    /\ PutReturns(map) =>
           hashmap_put(map, heap, key, value, metadata).map.count <= MaxEntries
    /\ call' = [pc |-> "put", key |-> key, value |-> value,
                metadata |-> metadata, doublings |-> 0]
    /\ UNCHANGED <<map, heap, murmur3_32, initial_size, parse, last_put, key_bufs>>

PutDouble ==
    /\ call.pc = "put"
    /\ map.count + 1 > map.max_size
    /\ call.doublings < MaxDoublings
    /\ map' = hashmap_double_size(map, heap).map
    /\ heap' = hashmap_double_size(map, heap).heap
    /\ call' = [call EXCEPT !.doublings = call.doublings + 1]
    /\ UNCHANGED <<murmur3_32, initial_size, parse, last_put, key_bufs>>

PutReturn ==
    /\ call.pc = "put"
    /\ ~(map.count + 1 > map.max_size)
    /\ LET r == PutInsert(map, heap, call.key, call.value, call.metadata)
       IN  /\ map' = r.map
           /\ heap' = r.heap
    /\ call' = Idle
    /\ UNCHANGED <<murmur3_32, initial_size, parse, last_put, key_bufs>>

NextSteps ==
    \/ \E a \in PutArgs : PutEnter(a[1], a[2], a[3])
    \/ PutDouble
    \/ PutReturn
    \/ \E k \in Keys : Get(k)
    \/ \E k \in Keys : Delete(k)
    \/ Clear
    \/ \E cb \in Callbacks(map, heap) : Iter(cb)

SpecSteps == Init /\ [][NextSteps]_vars

\* ------------------------------------------------------------------ destroy
\* The while loop of hashmap_destroy over one chain: every key is freed,
\* every chain node is freed, the head slot is left as it is.
RECURSIVE DestroyChain(_, _, _)
DestroyChain(M, entry, in_table) ==
    IF entry # NULL /\ Load(M, entry).key # NULL
    THEN DestroyChain(IF in_table THEN M ELSE Free(M, entry),
                      Load(M, entry).next, FALSE)
    ELSE M

RECURSIVE DestroyTable(_, _, _)
DestroyTable(M, table_size, i) ==
    IF i < table_size
    THEN DestroyTable(DestroyChain(M, Slot(i), TRUE), table_size, i + 1)
    ELSE M

\* The struct hashmap once free(map->table) and free(map) are done.
FreedMap == [count |-> NULL, table_size |-> NULL, max_size |-> NULL, table |-> <<>>]

hashmap_destroy(m, h) ==
    [ret |-> 0, map |-> FreedMap,
     heap |-> DestroyTable(Mem(m, h), m.table_size, 0).heap]

\* ------------------------------------------------------------------ key buffers
\* The key buffers each call mallocs (line 192) and frees, counted from
\* the calls it makes.  hashmap_double_size calls hashmap_insert_table
\* once for every entry it moves, and each call mallocs a copy of the key;
\* hashmap_double_size frees no key.
DoubleKeyMallocs(m, h) == Len(LiveEntries(m, h))

RECURSIVE PutKeyMallocs(_, _, _, _, _)
PutKeyMallocs(m, h, key, value, metadata) ==
    IF m.count + 1 > m.max_size
    THEN LET d == hashmap_double_size(m, h)
         IN DoubleKeyMallocs(m, h) + PutKeyMallocs(d.map, d.heap, key, value, metadata)
    ELSE IF PutInsert(m, h, key, value, metadata).ret = 1 THEN 1 ELSE 0

\* free(entry->key) of hashmap_delete (line 314).
DeleteKeyFrees(m, h, key) == IF hashmap_delete(m, h, key).ret = 0 THEN 1 ELSE 0

\* free(old->key) of hashmap_clear (line 373), once per entry walked.
ClearKeyFrees(m, h) == Len(LiveEntries(m, h))

\* free(entry->key) of hashmap_iter (line 417), once per DELETE.
IterKeyFrees(m, h, cb) ==
    Cardinality({j \in DOMAIN hashmap_iter(m, h, cb).visited :
                    hashmap_iter(m, h, cb).visited[j].cb_ret = HASHMAP_ITER_DELETE})

\* free(old->key) of hashmap_destroy (line 81), once per entry walked.
DestroyKeyFrees(m, h) == Len(LiveEntries(m, h))

\* The same calls with key_bufs kept, and hashmap_destroy, after which no
\* call is made on the map.
OPut(key, value, metadata) ==
    /\ PutCall(key, value, metadata)
    /\ key_bufs' = key_bufs + PutKeyMallocs(map, heap, key, value, metadata)
    /\ UNCHANGED last_put

ODelete(key) ==
    /\ DeleteCall(key)
    /\ key_bufs' = key_bufs - DeleteKeyFrees(map, heap, key)
    /\ UNCHANGED last_put

OClear ==
    /\ ClearCall
    /\ key_bufs' = key_bufs - ClearKeyFrees(map, heap)
    /\ UNCHANGED last_put

OIter(cb) ==
    /\ IterCall(cb)
    /\ key_bufs' = key_bufs - IterKeyFrees(map, heap, cb)
    /\ UNCHANGED last_put

Destroy ==
    /\ call.pc = "idle"
    /\ map' = hashmap_destroy(map, heap).map
    /\ heap' = hashmap_destroy(map, heap).heap
    /\ key_bufs' = key_bufs - DestroyKeyFrees(map, heap)
    /\ call' = [Idle EXCEPT !.pc = "destroyed"]
    /\ UNCHANGED <<murmur3_32, initial_size, parse, last_put>>

NextOwn ==
    \/ \E a \in PutArgs : OPut(a[1], a[2], a[3])
    \/ \E k \in Keys : Get(k)
    \/ \E k \in Keys : ODelete(k)
    \/ OClear
    \/ \E cb \in Callbacks(map, heap) : OIter(cb)
    \/ Destroy

SpecOwn == Init /\ [][NextOwn]_vars

\* ------------------------------------------------------------------ allocation failure
\* hashmap_insert_table reaches its malloc (line 192): the key was not
\* found and the scan ended on a slot or behind a node.
InsertAllocates(M, table_size, key, key_len, should_cmp) ==
    LET s == InsertScan(M, hashmap_index(table_size, key), NULL, key, key_len,
                        should_cmp)
    IN  ~s.found /\ ~(s.entry = NULL /\ s.last_entry = NULL)

\* hashmap_insert_table when the allocation it makes fails: malloc of the
\* key returns NULL (lines 193-195), or calloc of the node does and the
\* key is freed again (lines 211-214).  Either way -1, nothing stored.
hashmap_insert_table_enomem(M, table_size, key, key_len, value, metadata, should_cmp) ==
    IF InsertAllocates(M, table_size, key, key_len, should_cmp)
    THEN [ret |-> -1, mem |-> M]
    ELSE hashmap_insert_table(M, table_size, key, key_len, value, metadata,
                              should_cmp)

\* hashmap_double_size when the allocation of its fail-th call of
\* hashmap_insert_table fails.  R carries the new table, the heap and the
\* calls made; the result of the call is not looked at (line 249).
RECURSIVE DoubleChainEnomem(_, _, _, _, _, _)
DoubleChainEnomem(old_table, R, new_size, entry, in_table, fail) ==
    LET old == IF entry < 0 THEN old_table[-entry] ELSE R.mem.heap[entry]
    IN  IF entry # NULL /\ old.key # NULL
        THEN LET ins == IF R.calls + 1 = fail
                        THEN hashmap_insert_table_enomem(
                                 R.mem, new_size, old.key, strlen(old.key),
                                 old.value, old.metadata, FALSE).mem
                        ELSE hashmap_insert_table(
                                 R.mem, new_size, old.key, strlen(old.key),
                                 old.value, old.metadata, FALSE).mem
             IN DoubleChainEnomem(old_table,
                                  [mem |-> IF in_table THEN ins ELSE Free(ins, entry),
                                   calls |-> R.calls + 1],
                                  new_size, old.next, FALSE, fail)
        ELSE R

RECURSIVE DoubleTableEnomem(_, _, _, _, _)
DoubleTableEnomem(m, R, new_size, i, fail) ==
    IF i < m.table_size
    THEN DoubleTableEnomem(m, DoubleChainEnomem(m.table, R, new_size, Slot(i),
                                                TRUE, fail),
                           new_size, i + 1, fail)
    ELSE R

hashmap_double_size_enomem(m, h, fail) ==
    LET new_size == m.table_size * 2
        new_max_size == m.max_size * 2
        R == DoubleTableEnomem(m, [mem |-> [table |-> CallocTable(new_size),
                                            heap |-> h],
                                   calls |-> 0],
                               new_size, 0, fail)
    IN  [map |-> [count |-> m.count, table_size |-> new_size,
                  max_size |-> new_max_size, table |-> R.mem.table],
         heap |-> R.mem.heap, calls |-> R.calls]

\* The insert of hashmap_put (lines 289-294) when its allocation fails.
PutInsertEnomem(m, h, key, value, metadata) ==
    LET r == hashmap_insert_table_enomem(Mem(m, h), m.table_size, key,
                                         strlen(key), value, metadata, TRUE)
    IN  [ret |-> r.ret,
         map |-> [m EXCEPT !.table = r.mem.table,
                           !.count = IF r.ret > 0 THEN m.count + 1 ELSE m.count],
         heap |-> r.mem.heap]

\* hashmap_put when the fail-th allocating call of hashmap_insert_table it
\* makes, in its doublings or as its own insert, fails; every other
\* allocation succeeds.
RECURSIVE hashmap_put_enomem(_, _, _, _, _, _)
hashmap_put_enomem(m, h, key, value, metadata, fail) ==
    IF m.count + 1 > m.max_size
    THEN LET d == hashmap_double_size_enomem(m, h, fail)
         IN hashmap_put_enomem(d.map, d.heap, key, value, metadata, fail - d.calls)
    ELSE IF fail = 1
         THEN PutInsertEnomem(m, h, key, value, metadata)
         ELSE PutInsert(m, h, key, value, metadata)

\* A put one of whose allocations fails: fail ranges over the allocating
\* calls the put makes.
PutEnomem(key, value, metadata, fail) ==
    /\ call.pc = "idle"
    /\ PutReturns(map)
    /\ fail \in 1..PutKeyMallocs(map, heap, key, value, metadata)
    /\ LET r == hashmap_put_enomem(map, heap, key, value, metadata, fail)
       IN  /\ r.map.count <= MaxEntries
           /\ map' = r.map
           /\ heap' = r.heap
    /\ UNCHANGED <<murmur3_32, initial_size, call, parse, last_put, key_bufs>>

NextEnomem ==
    \/ \E a \in PutArgs : Put(a[1], a[2], a[3])
    \/ \E a \in PutArgs : \E fail \in 1..(MaxEntries + 1) :
           PutEnomem(a[1], a[2], a[3], fail)
    \/ \E k \in Keys : Get(k)
    \/ \E k \in Keys : Delete(k)
    \/ Clear
    \/ \E cb \in Callbacks(map, heap) : Iter(cb)

SpecEnomem == Init /\ [][NextEnomem]_vars

\* ------------------------------------------------------------------ validate_statsd
\* A buffer is a sequence of one-character strings; the byte after its
\* last one is the terminating NUL.  A pointer into it is an index from 1
\* (line itself is 1), and NULL is 0.
NUL == ""

At(buf, i) == IF i \in 1..Len(buf) THEN buf[i] ELSE NUL

\* A scan that stops at the first c of the n bytes, not the last.
memrchr_first(buf, start, c, n) ==
    LET hits == {i \in start..(start + n - 1) : At(buf, i) = c}
    IN  IF hits = {} THEN NULL ELSE CHOOSE i \in hits : \A o \in hits : i <= o

\* memrchr(buf + start - 1, c, n): the scan runs backwards over n bytes.
RECURSIVE memrchr(_, _, _, _)
memrchr(buf, start, c, n) ==
    IF n = 0 THEN NULL
    ELSE IF At(buf, start + n - 1) = c THEN start + n - 1
    ELSE memrchr(buf, start, c, n - 1)

\* memchr(buf + start - 1, c, n): the scan runs forwards over n bytes.
RECURSIVE memchr(_, _, _, _)
memchr(buf, start, c, n) ==
    IF n = 0 THEN NULL
    ELSE IF At(buf, start) = c THEN start
    ELSE memchr(buf, start + 1, c, n - 1)

\* strtod on the string at buf + start - 1, up to its NUL.  A double is
\* kept as an integer count of 10^-MaxFrac (digits further right are
\* dropped).  Of strtod's grammar this is the part the lines below can
\* spell: a sign, digits, a point, digits.  They hold no white space, no
\* exponent, no "inf", "nan" or "0x".
DigitChars == <<"0", "1", "2", "3", "4", "5", "6", "7", "8", "9">>

IsDigit(c) == \E d \in DOMAIN DigitChars : DigitChars[d] = c

DigitValue(c) == (CHOOSE d \in DOMAIN DigitChars : DigitChars[d] = c) - 1

RECURSIVE DigitsEnd(_, _)
DigitsEnd(buf, i) == IF IsDigit(At(buf, i)) THEN DigitsEnd(buf, i + 1) ELSE i

RECURSIVE IntValue(_, _, _, _)
IntValue(buf, i, e, acc) ==
    IF i < e THEN IntValue(buf, i + 1, e, acc * 10 + DigitValue(At(buf, i)))
    ELSE acc

RECURSIVE FracValue(_, _, _, _, _)
FracValue(buf, i, e, k, acc) ==
    IF i < e /\ k <= MaxFrac
    THEN FracValue(buf, i + 1, e, k + 1,
                   acc + DigitValue(At(buf, i)) * (10 ^ (MaxFrac - k)))
    ELSE acc

\* 1.0 as a double of the model.
One == 10 ^ MaxFrac

\* strtod(buf + start - 1, &err): the value and err.
strtod(buf, start) ==
    LET signed == At(buf, start) \in {"-", "+"}
        s1 == IF signed THEN start + 1 ELSE start
        e1 == DigitsEnd(buf, s1)
        point == At(buf, e1) = "."
        e2 == IF point THEN DigitsEnd(buf, e1 + 1) ELSE e1
        int == IntValue(buf, s1, e1, 0) * One
        frac == IF point THEN FracValue(buf, e1 + 1, e2, 1, 0) ELSE 0
        sign == IF At(buf, start) = "-" THEN -1 ELSE 1
    IN  IF e1 > s1
        THEN [value |-> sign * (int + frac), err |-> e2]
        ELSE IF point /\ e2 > e1 + 1
        THEN [value |-> sign * frac, err |-> e2]
        ELSE [value |-> 0, err |-> start]

valid_stat_types ==
    << <<"c">>, <<"m", "s">>, <<"k", "v">>, <<"g">>, <<"h">>, <<"s">> >>
valid_stat_types_len == 6
METRIC_UNKNOWN == -1

\* memcmp(stat, buf + str - 1, n) == 0; stat is a C string, its NUL
\* included.
stat_memcmp_eq(stat, buf, str, n) ==
    \A j \in 0..(n - 1) : At(stat, j + 1) = At(buf, str + j)

\* parse_stat_type(buf + str - 1, len): the first entry that compares
\* equal over 1 byte (len 1) or 2 bytes (len 2).
parse_stat_type(buf, str, len) ==
    LET hits == {i \in 0..(valid_stat_types_len - 1) :
                    stat_memcmp_eq(valid_stat_types[i + 1], buf, str,
                                   IF len = 1 THEN 1 ELSE 2)}
    IN  IF 1 <= len /\ len <= 2 /\ hits # {}
        THEN CHOOSE i \in hits : \A o \in hits : i <= o
        ELSE METRIC_UNKNOWN

\* The sample-rate clause of validate_statsd (lines 221-242): end is the
\* second '|'.
validate_rate(buf, len, end, result) ==
    IF len - (end - 1) > 1 /\ At(buf, end + 1) = "@"
    THEN LET start == end + 2
             plen == len - (start - 1)
             p == strtod(buf, start)
             written == [result EXCEPT !.presampling_value = p.value]
         IN  IF plen = 0 THEN [ret |-> 1, result |-> result]
             ELSE IF p.value = 0 /\ p.err = start
             THEN [ret |-> 1, result |-> written]
             ELSE [ret |-> 0, result |-> written]
    ELSE [ret |-> 1, result |-> result]

\* validate_statsd from the type token on (lines 205-242): bar is the
\* first '|' after the value.
validate_type(buf, len, bar, result) ==
    LET start == bar + 1
        end == memchr(buf, start, "|", len - (start - 1))
        plen == IF end # NULL THEN end - start ELSE len - (start - 1)
        typed == [result EXCEPT !.type = parse_stat_type(buf, start, plen)]
        sampled == [typed EXCEPT !.presampling_value = One]
    IN  IF typed.type < 0 THEN [ret |-> 1, result |-> typed]
        ELSE IF end # NULL THEN validate_rate(buf, len, end, sampled)
        ELSE [ret |-> 0, result |-> sampled]

\* validate_statsd(buf, len, result): the return value and *result.
validate_statsd(buf, len, result) ==
    LET colon == memrchr(buf, 1, ":", len)
        start == colon + 1
        plen == len - (start - 1)
        v == strtod(buf, start)
        valued == [result EXCEPT !.value = v.value]
        bar == memchr(buf, start, "|", plen)
    IN  IF colon = NULL THEN [ret |-> 1, result |-> result]
        ELSE IF colon - 1 < 1 THEN [ret |-> 1, result |-> result]
        ELSE IF v.value = 0 /\ v.err = start THEN [ret |-> 1, result |-> valued]
        ELSE IF bar = NULL THEN [ret |-> 1, result |-> valued]
        ELSE validate_type(buf, len, bar, valued)

\* The lines given to validate_statsd: a key, a ':', a value, a '|', a
\* type token and a sample-rate clause, each well formed, malformed or
\* missing, in a buffer that ends with the line or goes on behind it.
KeyParts == {<<>>, <<"a">>, <<":">>, <<"a", ":", "b">>}
ColonParts == {<<>>, <<":">>}
ValueParts == {<<>>, <<"1">>, <<"0">>, <<".", "5">>, <<"-", "1">>, <<"-">>,
               <<"z">>, <<"1", "z">>}
BarParts == {<<>>, <<"|">>}
TypeParts == {<<>>, <<"c">>, <<"m", "s">>, <<"k", "v">>, <<"g">>, <<"h">>,
              <<"s">>, <<"m">>, <<"k">>, <<"z">>, <<"C">>, <<"M", "S">>,
              <<"m", "z">>, <<"c", "c">>, <<"m", "s", "z">>}
RateParts == {<<>>, <<"|">>, <<"|", "@">>, <<"|", "@", "1">>, <<"|", "@", "0">>,
              <<"|", "@", ".", "5">>, <<"|", "@", "0", ".">>, <<"|", "@", ".">>,
              <<"|", "@", "z">>, <<"|", "1">>}
TailParts == {<<>>, <<"5">>, <<"|", "c">>}

Lines ==
    {k \o c \o v \o b \o t \o r :
        k \in KeyParts, c \in ColonParts, v \in ValueParts, b \in BarParts,
        t \in TypeParts, r \in RateParts}

\* *result as the caller had it before the call.
PriorResult == [value |-> -One, type |-> valid_stat_types_len,
                presampling_value |-> -One]

\* No table is made in the parser's runs.
NoMap == [count |-> NULL, table_size |-> NULL, max_size |-> NULL, table |-> <<>>]

InitValidate ==
    /\ \E l \in Lines : \E t \in TailParts :
           parse = [pc |-> "ready", line |-> l \o t, len |-> Len(l),
                    result |-> PriorResult, ret |-> NULL]
    /\ initial_size = NULL
    /\ murmur3_32 = <<>>
    /\ map = NoMap
    /\ heap = <<>>
    /\ call = Idle
    /\ last_put = NoPut
    /\ key_bufs = 0

Validate ==
    /\ parse.pc = "ready"
    /\ LET r == validate_statsd(parse.line, parse.len, parse.result)
       IN  parse' = [parse EXCEPT !.pc = "done", !.ret = r.ret,
                                  !.result = r.result]
    /\ UNCHANGED <<map, heap, murmur3_32, initial_size, call, last_put, key_bufs>>

NextValidate == Validate

SpecValidate == InitValidate /\ [][NextValidate]_vars

\* ------------------------------------------------------------------ properties
\* The positions in the walk of the table whose entry has key k.
EntriesOf(m, h, k) ==
    {i \in DOMAIN LiveEntries(m, h) : LiveEntries(m, h)[i].key = k}

Present(m, h, k) == EntriesOf(m, h, k) # {}

\* The live entries as a set of <<key, value, metadata>> records.
EntrySet(m, h) == {LiveEntries(m, h)[i] : i \in DOMAIN LiveEntries(m, h)}

\* A head slot whose key_len is not the length of the key it holds: the
\* trace of a head deletion in hashmap_iter that moved the next node up.
StaleHead ==
    \E i \in DOMAIN map.table :
        map.table[i].key # NULL /\ map.table[i].key_len # strlen(map.table[i].key)

\* C1 (round trip): a key whose last put stored v, and which has not been
\* deleted, cleared or deleted by an iterate callback since, is found by
\* get with value v.
C1_RoundTrip ==
    \A k \in Keys :
        last_put[k] # NULL =>
            hashmap_get(map, heap, k) = [ret |-> 0, value |-> last_put[k]]

\* C2 (uniqueness): no key has two live entries in the buckets and chains.
C2_Uniqueness == \A k \in Keys : Cardinality(EntriesOf(map, heap, k)) <= 1

C4_ResizeTransparent ==
    [][PutDouble =>
          /\ call'.doublings = 1
          /\ map'.table_size = 2 * map.table_size
          /\ map'.count = map.count
          /\ EntrySet(map', heap') = EntrySet(map, heap)
          /\ \A k \in Keys :
                 Present(map, heap, k) =>
                     /\ hashmap_get(map', heap', k).ret = 0
                     /\ hashmap_get(map, heap, k).ret = 0 =>
                            hashmap_get(map', heap', k) = hashmap_get(map, heap, k)]_vars

\* C5 (put terminates), on the stepwise put: a put in progress is within
\* finitely many doublings of passing the test count + 1 <= max_size, at
\* which it inserts and returns; the doublings still followed suffice.
C5_PutTerminates ==
    call.pc = "put" =>
        \E n \in 0..(MaxDoublings - call.doublings) :
            map.count + 1 <= map.max_size * (2 ^ n)

\* The callback that returns DELETE for every entry.
AllDelete(m, h) == [j \in 1..Len(LiveEntries(m, h)) |-> HASHMAP_ITER_DELETE]

Handed(visited) ==
    [j \in DOMAIN visited |->
        [key |-> visited[j].key, value |-> visited[j].value,
         metadata |-> visited[j].metadata]]

\* C7 (each entry once): in every reachable table, for every callback
\* that returns only CONTINUE or DELETE, the calls hashmap_iter makes are
\* exactly the live entries, each once, in bucket then chain order, each
\* with its own key, value and metadata.
C7_VisitsEachOnce ==
    \A cb \in [1..Len(LiveEntries(map, heap)) ->
                   {HASHMAP_ITER_CONTINUE, HASHMAP_ITER_DELETE}] :
        Handed(hashmap_iter(map, heap, cb).visited) = LiveEntries(map, heap)

\* C7 witness: a chain of three in one bucket, iterated with a deletion
\* of the head (the entry moved into the slot is the second call) and
\* with a deletion of the middle node (its successor is the third call).
C7_Witness ==
    /\ \E i \in DOMAIN map.table :
           /\ map.table[i].key # NULL
           /\ map.table[i].next # NULL
           /\ heap[map.table[i].next].next # NULL
    /\ map.count = 3
    /\ LET zip == hashmap_iter(map, heap,
                      <<HASHMAP_ITER_DELETE, HASHMAP_ITER_CONTINUE,
                        HASHMAP_ITER_CONTINUE>>)
           splice == hashmap_iter(map, heap,
                      <<HASHMAP_ITER_CONTINUE, HASHMAP_ITER_DELETE,
                        HASHMAP_ITER_CONTINUE>>)
       IN  /\ Len(zip.visited) = 3 /\ zip.map.count = 2
           /\ Len(splice.visited) = 3 /\ splice.map.count = 2

\* C8 (put result and effect): put of a present key returns 0, replaces
\* the value of its entry and keeps its metadata, the count and the other
\* entries; put of an absent key returns 1, adds <<key, value, metadata>>
\* and raises the count by one.
C8_PutEffect ==
    [][\A a \in PutArgs :
          Put(a[1], a[2], a[3]) =>
              IF Present(map, heap, a[1])
              THEN /\ hashmap_put(map, heap, a[1], a[2], a[3]).ret = 0
                   /\ map'.count = map.count
                   /\ EntrySet(map', heap') =
                          {IF e.key = a[1] THEN [e EXCEPT !.value = a[2]] ELSE e :
                              e \in EntrySet(map, heap)}
              ELSE /\ hashmap_put(map, heap, a[1], a[2], a[3]).ret = 1
                   /\ map'.count = map.count + 1
                   /\ EntrySet(map', heap') =
                          EntrySet(map, heap)
                              \cup {[key |-> a[1], value |-> a[2],
                                     metadata |-> a[3]]}]_vars

\* C9 (delete result and effect): delete of a present key returns 0,
\* after it get does not find the key, the count is one lower and every
\* other entry is as before; delete of an absent key returns -1 and
\* changes nothing.
C9_DeleteEffect ==
    [][\A k \in Keys :
          Delete(k) =>
              IF Present(map, heap, k)
              THEN /\ hashmap_delete(map, heap, k).ret = 0
                   /\ hashmap_get(map', heap', k).ret = -1
                   /\ map'.count = map.count - 1
                   /\ EntrySet(map', heap') =
                          {e \in EntrySet(map, heap) : e.key # k}
                   /\ \A o \in Keys \ {k} :
                          hashmap_get(map', heap', o) = hashmap_get(map, heap, o)
              ELSE /\ hashmap_delete(map, heap, k).ret = -1
                   /\ map' = map
                   /\ heap' = heap]_vars

\* C10 (clear): after clear size() is 0, get finds no key, the bucket
\* count and the threshold are as before; on an empty table clear changes
\* nothing.
C10_ClearEffect ==
    [][Clear =>
          /\ hashmap_size(map') = 0
          /\ \A k \in Keys : hashmap_get(map', heap', k).ret = -1
          /\ map'.table_size = map.table_size
          /\ map'.max_size = map.max_size
          /\ (map.count = 0 => (map' = map /\ heap' = heap))]_vars

\* C10 witness: clear has emptied a doubled table that had a chain: the
\* head slot has no key but still the value it held and the link the
\* chain hung from, which only hashmap_clear leaves.
C10_Witness ==
    /\ map.count = 0
    /\ map.table_size > 2
    /\ \E i \in DOMAIN map.table :
           /\ map.table[i].key = NULL
           /\ map.table[i].value # NULL
           /\ map.table[i].next # NULL

\* The chain nodes reached from one head slot.
RECURSIVE ChainNodes(_, _)
ChainNodes(M, entry) ==
    IF entry # NULL /\ Load(M, entry).key # NULL
    THEN (IF entry > 0 THEN {entry} ELSE {}) \cup ChainNodes(M, Load(M, entry).next)
    ELSE {}

TableNodes(m, h) ==
    UNION {ChainNodes(Mem(m, h), Slot(i)) : i \in 0..(m.table_size - 1)}

\* C11 (ownership): while the map lives, the key buffers malloc'ed and not
\* freed are as many as the live entries (one owner each, so a resize has
\* left no second copy behind) and the allocated chain nodes are exactly
\* those reached from the head slots; after destroy no key buffer and no
\* chain node is left.
C11_Ownership ==
    IF call.pc = "destroyed"
    THEN key_bufs = 0 /\ DOMAIN heap = {}
    ELSE /\ key_bufs = Len(LiveEntries(map, heap))
         /\ DOMAIN heap = TableNodes(map, heap)

\* C12 (allocation-failure atomicity): a put one of whose allocations
\* fails returns the failure result -1 and leaves the live entries, with
\* their values and metadata, and the live count as they were.
C12_EnomemAtomic ==
    [][\A a \in PutArgs : \A fail \in 1..(MaxEntries + 1) :
          PutEnomem(a[1], a[2], a[3], fail) =>
              /\ hashmap_put_enomem(map, heap, a[1], a[2], a[3], fail).ret = -1
              /\ LiveEntries(map', heap') = LiveEntries(map, heap)
              /\ hashmap_size(map') = hashmap_size(map)]_vars

\* The fields of the line, read off its first len bytes: the last ':',
\* the first '|' behind it, the next '|', the bytes between the two as
\* the type token, and the two numbers as the line alone spells them.
LineFields ==
    LET line == SubSeq(parse.line, 1, parse.len)
        colons == {i \in 1..Len(line) : line[i] = ":"}
        colon == IF colons = {} THEN NULL
                 ELSE CHOOSE i \in colons : \A o \in colons : o <= i
        bars == {i \in (colon + 1)..Len(line) : line[i] = "|"}
        bar == IF colon = NULL \/ bars = {} THEN NULL
               ELSE CHOOSE i \in bars : \A o \in bars : i <= o
        bars2 == {i \in bars : i > bar}
        bar2 == IF bar = NULL \/ bars2 = {} THEN NULL
                ELSE CHOOSE i \in bars2 : \A o \in bars2 : i <= o
    IN  [line |-> line, colon |-> colon, bar |-> bar, bar2 |-> bar2,
         token |-> IF bar = NULL THEN <<>>
                   ELSE SubSeq(line, bar + 1,
                               IF bar2 = NULL THEN Len(line) ELSE bar2 - 1),
         number |-> strtod(line, colon + 1),
         at |-> bar2 # NULL /\ At(line, bar2 + 1) = "@",
         rate |-> strtod(line, bar2 + 2)]

\* C13: a line that is well formed apart from its type token is accepted
\* if and only if the token is exactly one of c, ms, kv, g, h, s, and the
\* accepted line's type is the token's place in that list.
C13_TypeToken ==
    LET f == LineFields
        types == {i \in 0..(valid_stat_types_len - 1) :
                     valid_stat_types[i + 1] = f.token}
    IN  (/\ parse.pc = "done"
         /\ f.colon > 1
         /\ f.number.err > f.colon + 1
         /\ f.bar # NULL
         /\ f.bar2 # NULL => f.at /\ f.rate.err > f.bar2 + 2)
        => /\ parse.ret = 0 <=> types # {}
           /\ parse.ret = 0 => parse.result.type \in types

\* C14: of a line that is well formed up to its type token, one with no
\* second '|' is accepted with presampling rate 1.0, and one with a
\* second '|' is accepted if and only if an '@' and a number follow it in
\* the line, the number being the presampling rate.
C14_SampleRate ==
    LET f == LineFields
    IN  (/\ parse.pc = "done"
         /\ f.colon > 1
         /\ f.number.err > f.colon + 1
         /\ f.bar # NULL
         /\ parse_stat_type(f.line, f.bar + 1, Len(f.token)) >= 0)
        => IF f.bar2 = NULL
           THEN parse.ret = 0 /\ parse.result.presampling_value = One
           ELSE /\ parse.ret = 0 <=> f.at /\ f.rate.err > f.bar2 + 2
                /\ parse.ret = 0 => parse.result.presampling_value = f.rate.value

\* C15: a line with no ':' and a line whose last ':' is its first byte
\* are rejected, and so is one where no number starts right behind the
\* last ':' or no '|' follows it; any other line is accepted or rejected
\* by what comes behind that '|', and an accepted line's value is the
\* number behind the last ':', every earlier ':' being part of the key.
C15_KeyValueSplit ==
    LET f == LineFields
    IN  parse.pc = "done"
        => /\ f.colon = NULL => parse.ret = 1
           /\ f.colon = 1 => parse.ret = 1
           /\ f.colon > 1 /\ f.number.err = f.colon + 1 => parse.ret = 1
           /\ f.colon > 1 /\ f.bar = NULL => parse.ret = 1
           /\ f.colon > 1 /\ f.number.err > f.colon + 1 /\ f.bar # NULL
              => parse.ret = validate_type(parse.line, parse.len, f.bar,
                                           PriorResult).ret
           /\ parse.ret = 0 => parse.result.value = f.number.value

\* An accepted line with a ':' inside its key and a value other than 0.
C15_Witness ==
    LET f == LineFields
    IN  /\ parse.pc = "done"
        /\ parse.ret = 0
        /\ \E i \in 2..(f.colon - 2) : f.line[i] = ":"
        /\ parse.result.value = f.number.value
        /\ parse.result.value # 0

\* C16: a rejected line leaves the caller's record as it was before the
\* call: value, type and presampling rate are not written.
C16_NoPartialResult ==
    parse.pc = "done" /\ parse.ret # 0 => parse.result = PriorResult

\* hashmap_delete called for the key of every visit that returned DELETE,
\* in the order of the visits, from the table D = [map, heap].
RECURSIVE DeleteVisited(_, _, _)
DeleteVisited(D, visited, j) ==
    IF j > Len(visited) THEN D
    ELSE IF visited[j].cb_ret = HASHMAP_ITER_DELETE
    THEN LET r == hashmap_delete(D.map, D.heap, visited[j].key)
         IN  DeleteVisited([map |-> r.map, heap |-> r.heap], visited, j + 1)
    ELSE DeleteVisited(D, visited, j + 1)

\* C17: in every reachable table and for every callback, the table after
\* iterate is the table after delete(k) for each key k the callback
\* returned DELETE on: the same live count, the same entries in every
\* chain, and the same answer of get for every key, which compares the
\* key length each entry carries.
C17_IterDeleteIsDelete ==
    \A cb \in Callbacks(map, heap) :
        LET r == hashmap_iter(map, heap, cb)
            d == DeleteVisited([map |-> map, heap |-> heap], r.visited, 1)
        IN  /\ hashmap_size(r.map) = hashmap_size(d.map)
            /\ LiveEntries(r.map, r.heap) = LiveEntries(d.map, d.heap)
            /\ \A k \in Keys :
                   hashmap_get(r.map, r.heap, k) = hashmap_get(d.map, d.heap, k)

\* C18: in every reachable state the bucket count is a power of two that
\* is at least the capacity asked for, and the threshold is 0.75 times
\* the bucket count, rounded down; a request of 0 or less makes 128
\* buckets.
C18_CapacityThreshold ==
    /\ \E k \in 0..30 : map.table_size = 2 ^ k
    /\ map.table_size >= initial_size
    /\ map.max_size = (3 * map.table_size) \div 4
    /\ \A n \in {-1, 0} : hashmap_init(n).table_size = DEFAULT_CAPACITY

\* C19: the bucket count and the threshold change only in a put of a key
\* that is not in the table, made when count + 1 is above the threshold;
\* a put of a key that is in the table, and every delete, clear and
\* iterate, leave both as they were.
C19_DoublingOnlyOnInsert ==
    [][/\ \A a \in PutArgs :
              Put(a[1], a[2], a[3])
              /\ (map'.table_size # map.table_size \/ map'.max_size # map.max_size)
              => ~Present(map, heap, a[1]) /\ map.count + 1 > map.max_size
       /\ (\/ \E k \in Keys : Delete(k)
           \/ Clear
           \/ \E cb \in Callbacks(map, heap) : Iter(cb))
          => map'.table_size = map.table_size /\ map'.max_size = map.max_size]_vars

\* C20: in every reachable state a head slot with no key has a null next
\* link, a null value and null metadata, and every next link held in the
\* bucket array or in a chain node is null or points to a node that has
\* not been freed.
C20_EmptyHead ==
    /\ \A i \in DOMAIN map.table :
           map.table[i].key = NULL
           => /\ map.table[i].next = NULL
              /\ map.table[i].value = NULL
              /\ map.table[i].metadata = NULL
    /\ \A i \in DOMAIN map.table :
           map.table[i].next = NULL \/ map.table[i].next \in DOMAIN heap
    /\ \A n \in DOMAIN heap : heap[n].next = NULL \/ heap[n].next \in DOMAIN heap

\* The entries of a walk that a callback did not return DELETE on: entry
\* j of the walk goes with call j.
RECURSIVE KeptEntries(_, _, _)
KeptEntries(entries, cb, j) ==
    IF j > Len(entries) THEN <<>>
    ELSE (IF cb[j] = HASHMAP_ITER_DELETE THEN <<>> ELSE <<entries[j]>>)
         \o KeptEntries(entries, cb, j + 1)

\* C21: in every reachable table and for every callback, the call on
\* which the callback returns STOP is the last call of that iterate, in
\* its chain and in every later bucket; the entry it was made on and the
\* entries not yet visited stay in the table, the entries deleted before
\* it stay deleted, and iterate returns STOP.  With no STOP every entry
\* is visited and iterate returns 0.
C21_IterStop ==
    \A cb \in Callbacks(map, heap) :
        LET r == hashmap_iter(map, heap, cb)
            before == LiveEntries(map, heap)
            stops == {j \in DOMAIN cb : cb[j] = HASHMAP_ITER_STOP}
            last == IF stops = {} THEN Len(before)
                    ELSE CHOOSE j \in stops : \A o \in stops : j <= o
        IN  /\ Handed(r.visited) = SubSeq(before, 1, last)
            /\ r.ret = IF stops = {} THEN 0 ELSE HASHMAP_ITER_STOP
            /\ LiveEntries(r.map, r.heap) = KeptEntries(before, cb, 1)
            /\ hashmap_size(r.map) = Len(KeptEntries(before, cb, 1))

\* A chain of two in the first bucket in use and an entry in a later
\* bucket: an iterate that deletes the head and stops on the entry moved
\* into the slot makes two calls and leaves two entries, and one that
\* stops on the first entry makes one call and leaves all three.
C21_Witness ==
    /\ map.count = 3
    /\ \E i \in DOMAIN map.table : \E j \in DOMAIN map.table :
           /\ i < j
           /\ map.table[i].key # NULL /\ map.table[i].next # NULL
           /\ map.table[j].key # NULL
           /\ \A o \in 1..(i - 1) : map.table[o].key = NULL
    /\ LET zip == hashmap_iter(map, heap,
                      <<HASHMAP_ITER_DELETE, HASHMAP_ITER_STOP,
                        HASHMAP_ITER_CONTINUE>>)
           first == hashmap_iter(map, heap,
                      <<HASHMAP_ITER_STOP, HASHMAP_ITER_CONTINUE,
                        HASHMAP_ITER_CONTINUE>>)
       IN  /\ Len(zip.visited) = 2 /\ zip.ret = HASHMAP_ITER_STOP
           /\ Len(LiveEntries(zip.map, zip.heap)) = 2
           /\ Len(first.visited) = 1 /\ first.ret = HASHMAP_ITER_STOP
           /\ Len(LiveEntries(first.map, first.heap)) = 3

\* C22: the outcome of validate_statsd is that of its first len bytes:
\* on every buffer that holds the same line and other bytes behind it,
\* the call accepts or rejects alike, and an accepted line has the same
\* value, type and presampling rate.
C22_ReadsOnlyLine ==
    parse.pc = "done"
    => \A t \in TailParts :
           LET o == validate_statsd(SubSeq(parse.line, 1, parse.len) \o t,
                                    parse.len, PriorResult)
           IN  /\ o.ret = parse.ret
               /\ parse.ret = 0 => o.result = parse.result

====
